---------------------------- MODULE Spec2Model ----------------------------
(***************************************************************************)
(* State-machine model of the social-network API: the RBAC middleware,     *)
(* the follow ledger, the post store and the followings-feed aggregation.  *)
(* Every HTTP request is one atomic action: the middleware chain and the   *)
(* controllers contain no await, so Node runs each request to completion   *)
(* before the next one starts.                                             *)
(***************************************************************************)
EXTENDS Integers, Sequences, FiniteSets, TLC

VARIABLES users, follows, posts, now, resp

vars == <<users, follows, posts, now, resp>>

(***************************************************************************)
(* Bounds of the model.                                                    *)
(***************************************************************************)
\* number of seeded posts (the program seeds 100 with the same formula)
NumSeedPosts == 22
\* posts appended by createPost
MaxNewPosts == 2
\* edges appended by followUser
MaxNewEdges == 2
\* clock readings after start-up
MaxTicks == 1
\* successful writes in a behaviour of the whole API
MaxMutations == 2

(***************************************************************************)
(* Program constants.                                                      *)
(***************************************************************************)
\* Date.now() when the post model is loaded, in model ticks; as in the
\* program it is far above the seeded post numbers
StartClock == 1000
\* one day (86400000 ms) in model ticks
DayMs == 10
\* $limit of the feed pipeline
FeedLimit == 10
\* the 24h token lifetime, in seconds
TokenTtl == 86400
\* getAllPosts / getFollowers clamp of limit
MaxPageLimit == 50
\* default page size
DefaultLimit == 10

NoDate == -1
NoUser == [id |-> "", role |-> "", name |-> ""]

Min(a, b) == IF a < b THEN a ELSE b

(***************************************************************************)
(* Identifiers.  `p${n}` and `f${n}` are injective in n; an id is the pair *)
(* of its prefix and its number.                                           *)
(***************************************************************************)
PostId(n) == <<"p", n>>
FollowId(n) == <<"f", n>>

(***************************************************************************)
(* Seed data.                                                              *)
(***************************************************************************)
SeedUsers ==
  << [id |-> "u1", name |-> "John Doe", role |-> "admin", isActive |-> TRUE],
     [id |-> "u2", name |-> "Jane Doe", role |-> "user", isActive |-> TRUE],
     [id |-> "u3", name |-> "Jim Doe", role |-> "user", isActive |-> TRUE],
     [id |-> "u4", name |-> "Jill Doe", role |-> "user", isActive |-> TRUE],
     [id |-> "u5", name |-> "Jack Doe", role |-> "user", isActive |-> TRUE] >>

SeedEdge(n, a, b, t) ==
  [id |-> FollowId(n), follower |-> a, following |-> b, created |-> t,
   isDeleted |-> FALSE, updatedAt |-> NoDate]

SeedFollows ==
  << SeedEdge(1, "u1", "u2", 1), SeedEdge(2, "u1", "u3", 3),
     SeedEdge(3, "u2", "u1", 2), SeedEdge(4, "u3", "u1", 4),
     SeedEdge(5, "u4", "u1", 5), SeedEdge(6, "u5", "u2", 6) >>

SeedAuthors == <<"u2", "u3", "u4", "u5">>

SeedPosts ==
  [i \in 1..NumSeedPosts |->
     [id |-> PostId(i),
      author |-> SeedAuthors[((i - 1) % Len(SeedAuthors)) + 1],
      content |-> <<"a">>,
      created |-> StartClock - (NumSeedPosts - (i - 1)) * DayMs,
      isDeleted |-> FALSE,
      updatedAt |-> StartClock - (NumSeedPosts - (i - 1)) * DayMs]]

(***************************************************************************)
(* JWT middleware.  A header is the sequence of its space-separated parts; *)
(* <<>> is the absent header.  A token is a record of its claims plus      *)
(* whether its signature verifies under the process secret.                *)
(***************************************************************************)
NoHeader == <<>>

\* generateToken: the claims of a token signed for user u at clock t
generateToken(u, t) ==
  [form |-> "jwt", id |-> u.id, role |-> u.role, name |-> u.name,
   exp |-> (t \div 1000) + TokenTtl, sig |-> "ok"]

\* extractTokenFromHeader
extractTokenFromHeader(authHeader) ==
  IF authHeader = NoHeader
    THEN [ok |-> FALSE, message |-> "Authorization header missing"]
  ELSE IF Len(authHeader) # 2 \/ authHeader[1] # "Bearer"
    THEN [ok |-> FALSE, message |-> "Invalid authorization header format"]
  ELSE [ok |-> TRUE, token |-> authHeader[2]]

\* verifyToken, had it reported an expired token as an invalid one
verifyToken_oneMessage(token, t) ==
  IF token.form # "jwt" \/ token.sig # "ok"
    THEN [ok |-> FALSE, message |-> "Invalid token"]
  ELSE IF (t \div 1000) >= token.exp
    THEN [ok |-> FALSE, message |-> "Invalid token"]
  ELSE [ok |-> TRUE, decoded |-> token]

\* verifyToken: jwt.verify checks the structure and the signature, then exp
verifyToken(token, t) ==
  IF token.form # "jwt" \/ token.sig # "ok"
    THEN [ok |-> FALSE, message |-> "Invalid token"]
  ELSE IF (t \div 1000) >= token.exp
    THEN [ok |-> FALSE, message |-> "Token expired"]
  ELSE [ok |-> TRUE, decoded |-> token]

Includes(roles, r) == \E i \in 1..Len(roles) : roles[i] = r

\* a response sent by the middleware itself: next() is not called.  steps
\* lists the steps the middleware ran, nextCalls counts its calls of next()
Denied(status, code, message, requiredRoles, userRole, steps) ==
  [pass |-> FALSE, status |-> status, code |-> code, message |-> message,
   requiredRoles |-> requiredRoles, userRole |-> userRole, user |-> NoUser,
   steps |-> steps, nextCalls |-> 0]

\* authorize, had it skipped the role check
authorize_noRoleCheck(roles, authHeader, t) ==
  LET ex == extractTokenFromHeader(authHeader) IN
  IF ~ex.ok THEN Denied(401, "AUTH_HEADER_ERROR", ex.message, <<>>, "", <<"extract">>)
  ELSE LET v == verifyToken(ex.token, t) IN
    IF ~v.ok THEN Denied(401, "TOKEN_VERIFICATION_ERROR", v.message, <<>>, "",
                         <<"extract", "verify">>)
    ELSE [pass |-> TRUE, status |-> 200, code |-> "", message |-> "",
          requiredRoles |-> roles, userRole |-> v.decoded.role,
          user |-> [id |-> v.decoded.id, role |-> v.decoded.role,
                    name |-> v.decoded.name],
          steps |-> <<"extract", "verify">>, nextCalls |-> 1]

\* authorize, had it checked the role claimed by the token before verifying
\* the token
authorize_roleFirst(roles, authHeader, t) ==
  LET ex == extractTokenFromHeader(authHeader) IN
  IF ~ex.ok THEN Denied(401, "AUTH_HEADER_ERROR", ex.message, <<>>, "", <<"extract">>)
  ELSE IF Len(roles) > 0 /\ ~Includes(roles, ex.token.role)
    THEN Denied(403, "INSUFFICIENT_PERMISSIONS", "Access denied", roles,
                ex.token.role, <<"extract", "role">>)
  ELSE LET v == verifyToken(ex.token, t) IN
    IF ~v.ok THEN Denied(401, "TOKEN_VERIFICATION_ERROR", v.message, <<>>, "",
                         <<"extract", "role", "verify">>)
    ELSE [pass |-> TRUE, status |-> 200, code |-> "", message |-> "",
          requiredRoles |-> roles, userRole |-> v.decoded.role,
          user |-> [id |-> v.decoded.id, role |-> v.decoded.role,
                    name |-> v.decoded.name],
          steps |-> <<"extract", "role", "verify">>, nextCalls |-> 1]

\* authorize(roles): the result of running the middleware on a request
authorize(roles, authHeader, t) ==
  LET ex == extractTokenFromHeader(authHeader) IN
  IF ~ex.ok THEN Denied(401, "AUTH_HEADER_ERROR", ex.message, <<>>, "", <<"extract">>)
  ELSE LET v == verifyToken(ex.token, t) IN
    IF ~v.ok THEN Denied(401, "TOKEN_VERIFICATION_ERROR", v.message, <<>>, "",
                         <<"extract", "verify">>)
    ELSE IF Len(roles) > 0 /\ ~Includes(roles, v.decoded.role)
      THEN Denied(403, "INSUFFICIENT_PERMISSIONS", "Access denied", roles,
                  v.decoded.role, <<"extract", "verify", "role">>)
    ELSE [pass |-> TRUE, status |-> 200, code |-> "", message |-> "",
          requiredRoles |-> roles, userRole |-> v.decoded.role,
          user |-> [id |-> v.decoded.id, role |-> v.decoded.role,
                    name |-> v.decoded.name],
          steps |-> <<"extract", "verify", "role">>, nextCalls |-> 1]

\* requireAdmin, had it admitted every authenticated role
requireAdmin_anyRole(authHeader, t) == authorize(<<"user", "admin">>, authHeader, t)

requireAdmin(authHeader, t) == authorize(<<"admin">>, authHeader, t)
requireUserOrAdmin(authHeader, t) == authorize(<<"user", "admin">>, authHeader, t)
requireAuth(authHeader, t) == authorize(<<"user", "admin">>, authHeader, t)

\* optionalAuth, had it answered 401 to a header whose token does not verify
optionalAuth_blocking(authHeader, t) ==
  IF authHeader = NoHeader
    THEN [nextCalls |-> 1, sent |-> FALSE, user |-> NoUser]
  ELSE LET ex == extractTokenFromHeader(authHeader) IN
    IF ~ex.ok THEN [nextCalls |-> 1, sent |-> FALSE, user |-> NoUser]
    ELSE LET v == verifyToken(ex.token, t) IN
      IF ~v.ok THEN [nextCalls |-> 0, sent |-> TRUE, user |-> NoUser]
      ELSE [nextCalls |-> 1, sent |-> FALSE,
            user |-> [id |-> v.decoded.id, role |-> v.decoded.role,
                      name |-> v.decoded.name]]

\* optionalAuth: how often it calls next(), whether it sends a response
\* itself, and the principal it attaches
optionalAuth(authHeader, t) ==
  IF authHeader = NoHeader
    THEN [nextCalls |-> 1, sent |-> FALSE, user |-> NoUser]
  ELSE LET ex == extractTokenFromHeader(authHeader) IN
    IF ~ex.ok THEN [nextCalls |-> 1, sent |-> FALSE, user |-> NoUser]
    ELSE LET v == verifyToken(ex.token, t) IN
      IF ~v.ok THEN [nextCalls |-> 1, sent |-> FALSE, user |-> NoUser]
      ELSE [nextCalls |-> 1, sent |-> FALSE,
            user |-> [id |-> v.decoded.id, role |-> v.decoded.role,
                      name |-> v.decoded.name]]


(***************************************************************************)
(* Array helpers.                                                          *)
(***************************************************************************)
\* Array.prototype.findIndex, 1-based; 0 stands for -1
FindIndex(seq, P(_)) ==
  IF \E i \in 1..Len(seq) : P(seq[i])
    THEN CHOOSE i \in 1..Len(seq) : P(seq[i]) /\ \A j \in 1..(i - 1) : ~P(seq[j])
    ELSE 0

\* Array.prototype.slice(from, to) for 0 <= from
\* slice, had it started one element late
Slice_shifted(seq, from, to) ==
  IF to <= from THEN <<>> ELSE SubSeq(seq, from + 2, Min(to + 1, Len(seq)))

\* Array.prototype.slice(from, to): a negative index counts from the end
Slice(seq, from, to) ==
  LET rel(k) == IF k < 0 THEN (IF Len(seq) + k < 0 THEN 0 ELSE Len(seq) + k)
                ELSE Min(k, Len(seq))
  IN IF rel(to) <= rel(from) THEN <<>> ELSE SubSeq(seq, rel(from) + 1, rel(to))

\* the positions of seq whose element satisfies P, in order (Array.filter)
Positions(seq, P(_)) ==
  SelectSeq([i \in 1..Len(seq) |-> i], LAMBDA i : P(seq[i]))

RECURSIVE Flatten(_)
Flatten(seqs) == IF seqs = <<>> THEN <<>> ELSE Head(seqs) \o Flatten(Tail(seqs))

Reverse(seq) == [i \in 1..Len(seq) |-> seq[Len(seq) + 1 - i]]

\* a row without an isDeleted field reads as undefined, which is falsy
IsDeleted(row) == IF "isDeleted" \in DOMAIN row THEN row.isDeleted ELSE FALSE

(***************************************************************************)
(* Follows controller.  Every handler returns its HTTP response and the    *)
(* ledger it leaves behind.                                                *)
(***************************************************************************)
\* users.find(u => u.id === userId && !u.isDeleted), as a position (0: none)
findUser(userId) == FindIndex(users, LAMBDA u : u.id = userId /\ ~IsDeleted(u))

\* follows.findIndex(f => f.follower === a && f.following === b && !f.isDeleted)
findActiveFollow(a, b) ==
  FindIndex(follows, LAMBDA f : f.follower = a /\ f.following = b /\ ~f.isDeleted)

Fail(status, code) == [status |-> status, code |-> code, body |-> <<>>]

\* followUser, had it appended the edge before checking the request
followUser_pushFirst(currentUser, userId, t) ==
  LET pushed == Append(follows,
                  [id |-> FollowId(Len(follows) + 1),
                   follower |-> currentUser.id, following |-> userId,
                   created |-> t, isDeleted |-> FALSE, updatedAt |-> NoDate])
  IN
  IF currentUser.id = userId
    THEN [res |-> Fail(400, "SELF_FOLLOW_ERROR"), follows |-> pushed]
  ELSE IF findUser(userId) = 0
    THEN [res |-> Fail(404, "USER_NOT_FOUND"), follows |-> pushed]
  ELSE IF findActiveFollow(currentUser.id, userId) # 0
    THEN [res |-> Fail(400, "ALREADY_FOLLOWING"), follows |-> pushed]
  ELSE [res |-> [status |-> 201, code |-> "",
                 body |-> [id |-> FollowId(Len(follows) + 1),
                           follower |-> currentUser.id,
                           following |-> userId, created |-> t]],
        follows |-> pushed]

\* followUser without the self check
followUser_noSelfCheck(currentUser, userId, t) ==
  IF findUser(userId) = 0
    THEN [res |-> Fail(404, "USER_NOT_FOUND"), follows |-> follows]
  ELSE IF findActiveFollow(currentUser.id, userId) # 0
    THEN [res |-> Fail(400, "ALREADY_FOLLOWING"), follows |-> follows]
  ELSE [res |-> [status |-> 201, code |-> "",
                 body |-> [id |-> FollowId(Len(follows) + 1),
                           follower |-> currentUser.id,
                           following |-> userId, created |-> t]],
        follows |-> Append(follows,
                      [id |-> FollowId(Len(follows) + 1),
                       follower |-> currentUser.id, following |-> userId,
                       created |-> t, isDeleted |-> FALSE, updatedAt |-> NoDate])]

\* followUser without the already-following check
followUser_noDupCheck(currentUser, userId, t) ==
  IF currentUser.id = userId
    THEN [res |-> Fail(400, "SELF_FOLLOW_ERROR"), follows |-> follows]
  ELSE IF findUser(userId) = 0
    THEN [res |-> Fail(404, "USER_NOT_FOUND"), follows |-> follows]
  ELSE [res |-> [status |-> 201, code |-> "",
                 body |-> [id |-> FollowId(Len(follows) + 1),
                           follower |-> currentUser.id,
                           following |-> userId, created |-> t]],
        follows |-> Append(follows,
                      [id |-> FollowId(Len(follows) + 1),
                       follower |-> currentUser.id, following |-> userId,
                       created |-> t, isDeleted |-> FALSE, updatedAt |-> NoDate])]

\* followUser, had it revived the soft-deleted row of the pair instead of
\* appending a new one
followUser_reactivate(currentUser, userId, t) ==
  LET old == FindIndex(follows, LAMBDA f : f.follower = currentUser.id
                                            /\ f.following = userId /\ f.isDeleted)
  IN
  IF currentUser.id = userId
    THEN [res |-> Fail(400, "SELF_FOLLOW_ERROR"), follows |-> follows]
  ELSE IF findUser(userId) = 0
    THEN [res |-> Fail(404, "USER_NOT_FOUND"), follows |-> follows]
  ELSE IF findActiveFollow(currentUser.id, userId) # 0
    THEN [res |-> Fail(400, "ALREADY_FOLLOWING"), follows |-> follows]
  ELSE IF old # 0
    THEN [res |-> [status |-> 201, code |-> "",
                   body |-> [id |-> follows[old].id, follower |-> currentUser.id,
                             following |-> userId, created |-> t]],
          follows |-> [follows EXCEPT ![old].isDeleted = FALSE]]
  ELSE [res |-> [status |-> 201, code |-> "",
                 body |-> [id |-> FollowId(Len(follows) + 1),
                           follower |-> currentUser.id,
                           following |-> userId, created |-> t]],
        follows |-> Append(follows,
                      [id |-> FollowId(Len(follows) + 1),
                       follower |-> currentUser.id, following |-> userId,
                       created |-> t, isDeleted |-> FALSE, updatedAt |-> NoDate])]

\* followUser, had it looked for the edge before looking up the target
followUser_edgeFirst(currentUser, userId, t) ==
  IF currentUser.id = userId
    THEN [res |-> Fail(400, "SELF_FOLLOW_ERROR"), follows |-> follows]
  ELSE IF findActiveFollow(currentUser.id, userId) # 0
    THEN [res |-> Fail(400, "ALREADY_FOLLOWING"), follows |-> follows]
  ELSE IF findUser(userId) = 0
    THEN [res |-> Fail(404, "USER_NOT_FOUND"), follows |-> follows]
  ELSE [res |-> [status |-> 201, code |-> "",
                 body |-> [id |-> FollowId(Len(follows) + 1),
                           follower |-> currentUser.id,
                           following |-> userId, created |-> t]],
        follows |-> Append(follows,
                      [id |-> FollowId(Len(follows) + 1),
                       follower |-> currentUser.id, following |-> userId,
                       created |-> t, isDeleted |-> FALSE, updatedAt |-> NoDate])]

\* followUser, had it numbered the new edge after the active edges only
followUser_activeCountId(currentUser, userId, t) ==
  LET n == Len(Positions(follows, LAMBDA f : ~f.isDeleted)) + 1 IN
  IF currentUser.id = userId
    THEN [res |-> Fail(400, "SELF_FOLLOW_ERROR"), follows |-> follows]
  ELSE IF findUser(userId) = 0
    THEN [res |-> Fail(404, "USER_NOT_FOUND"), follows |-> follows]
  ELSE IF findActiveFollow(currentUser.id, userId) # 0
    THEN [res |-> Fail(400, "ALREADY_FOLLOWING"), follows |-> follows]
  ELSE [res |-> [status |-> 201, code |-> "",
                 body |-> [id |-> FollowId(n), follower |-> currentUser.id,
                           following |-> userId, created |-> t]],
        follows |-> Append(follows,
                      [id |-> FollowId(n),
                       follower |-> currentUser.id, following |-> userId,
                       created |-> t, isDeleted |-> FALSE, updatedAt |-> NoDate])]

followUser(currentUser, userId, t) ==
  IF currentUser.id = userId
    THEN [res |-> Fail(400, "SELF_FOLLOW_ERROR"), follows |-> follows]
  ELSE IF findUser(userId) = 0
    THEN [res |-> Fail(404, "USER_NOT_FOUND"), follows |-> follows]
  ELSE IF findActiveFollow(currentUser.id, userId) # 0
    THEN [res |-> Fail(400, "ALREADY_FOLLOWING"), follows |-> follows]
  ELSE LET newFollow == [id |-> FollowId(Len(follows) + 1),
                         follower |-> currentUser.id, following |-> userId,
                         created |-> t, isDeleted |-> FALSE,
                         updatedAt |-> NoDate]
       IN [res |-> [status |-> 201, code |-> "",
                    body |-> [id |-> newFollow.id, follower |-> currentUser.id,
                              following |-> userId, created |-> t]],
           follows |-> Append(follows, newFollow)]

\* unfollowUser, had it spliced the row out of the ledger
unfollowUser_remove(currentUser, userId, t) ==
  IF currentUser.id = userId
    THEN [res |-> Fail(400, "SELF_UNFOLLOW_ERROR"), follows |-> follows]
  ELSE IF findUser(userId) = 0
    THEN [res |-> Fail(404, "USER_NOT_FOUND"), follows |-> follows]
  ELSE LET existingFollowIndex == findActiveFollow(currentUser.id, userId) IN
    IF existingFollowIndex = 0
      THEN [res |-> Fail(400, "NOT_FOLLOWING"), follows |-> follows]
    ELSE [res |-> [status |-> 200, code |-> "",
                   body |-> [id |-> follows[existingFollowIndex].id,
                             follower |-> currentUser.id,
                             following |-> userId]],
          follows |-> SubSeq(follows, 1, existingFollowIndex - 1)
                        \o SubSeq(follows, existingFollowIndex + 1, Len(follows))]

\* unfollowUser without the self check
unfollowUser_noSelfCheck(currentUser, userId, t) ==
  IF findUser(userId) = 0
    THEN [res |-> Fail(404, "USER_NOT_FOUND"), follows |-> follows]
  ELSE LET existingFollowIndex == findActiveFollow(currentUser.id, userId) IN
    IF existingFollowIndex = 0
      THEN [res |-> Fail(400, "NOT_FOLLOWING"), follows |-> follows]
    ELSE [res |-> [status |-> 200, code |-> "",
                   body |-> [id |-> follows[existingFollowIndex].id,
                             follower |-> currentUser.id,
                             following |-> userId]],
          follows |-> [follows EXCEPT ![existingFollowIndex].isDeleted = TRUE,
                                      ![existingFollowIndex].updatedAt = t]]

unfollowUser(currentUser, userId, t) ==
  IF currentUser.id = userId
    THEN [res |-> Fail(400, "SELF_UNFOLLOW_ERROR"), follows |-> follows]
  ELSE IF findUser(userId) = 0
    THEN [res |-> Fail(404, "USER_NOT_FOUND"), follows |-> follows]
  ELSE LET existingFollowIndex == findActiveFollow(currentUser.id, userId) IN
    IF existingFollowIndex = 0
      THEN [res |-> Fail(400, "NOT_FOLLOWING"), follows |-> follows]
    ELSE [res |-> [status |-> 200, code |-> "",
                   body |-> [id |-> follows[existingFollowIndex].id,
                             follower |-> currentUser.id,
                             following |-> userId]],
          follows |-> [follows EXCEPT ![existingFollowIndex].isDeleted = TRUE,
                                      ![existingFollowIndex].updatedAt = t]]

\* the rows of getFollowers: active edges into userId
userFollowers(userId) ==
  Positions(follows, LAMBDA f : f.following = userId /\ ~f.isDeleted)

\* the rows of getFollowing: active edges out of userId
userFollowing(userId) ==
  Positions(follows, LAMBDA f : f.follower = userId /\ ~f.isDeleted)

UserDetails(i) == [id |-> users[i].id, name |-> users[i].name, role |-> users[i].role]

\* getFollowers with the default page = 1, limit = 10 replaced by page, limit
getFollowers(userId, page, limit) ==
  IF findUser(userId) = 0 THEN Fail(404, "USER_NOT_FOUND")
  ELSE LET rows == userFollowers(userId) IN
    \* follower.id on an unresolved follower throws inside map: the catch answers 500
    IF \E k \in 1..Len(rows) : findUser(follows[rows[k]].follower) = 0
      THEN Fail(500, "GET_FOLLOWERS_INTERNAL_ERROR")
    ELSE LET followersWithDetails ==
               [k \in 1..Len(rows) |->
                  [id |-> follows[rows[k]].id, row |-> rows[k],
                   follower |-> UserDetails(findUser(follows[rows[k]].follower))]]
             limitNum == Min(limit, MaxPageLimit)
             skip == (page - 1) * limitNum
         IN [status |-> 200, code |-> "",
             body |-> [followers |-> Slice(followersWithDetails, skip, skip + limitNum),
                       total |-> Len(followersWithDetails)]]

getFollowing(userId, page, limit) ==
  IF findUser(userId) = 0 THEN Fail(404, "USER_NOT_FOUND")
  ELSE LET rows == userFollowing(userId) IN
    IF \E k \in 1..Len(rows) : findUser(follows[rows[k]].following) = 0
      THEN Fail(500, "GET_FOLLOWING_INTERNAL_ERROR")
    ELSE LET followingWithDetails ==
               [k \in 1..Len(rows) |->
                  [id |-> follows[rows[k]].id, row |-> rows[k],
                   following |-> UserDetails(findUser(follows[rows[k]].following))]]
             limitNum == Min(limit, MaxPageLimit)
             skip == (page - 1) * limitNum
         IN [status |-> 200, code |-> "",
             body |-> [following |-> Slice(followingWithDetails, skip, skip + limitNum),
                       total |-> Len(followingWithDetails)]]

checkFollowStatus(currentUser, userId) ==
  IF findUser(userId) = 0 THEN Fail(404, "USER_NOT_FOUND")
  ELSE [status |-> 200, code |-> "",
        body |-> [isFollowing |->
                    \E i \in 1..Len(follows) :
                       /\ follows[i].follower = currentUser.id
                       /\ follows[i].following = userId
                       /\ ~follows[i].isDeleted,
                  targetUser |-> userId]]

getFollowStats(userId) ==
  IF findUser(userId) = 0 THEN Fail(404, "USER_NOT_FOUND")
  ELSE [status |-> 200, code |-> "",
        body |-> [userId |-> userId,
                  followersCount |-> Len(userFollowers(userId)),
                  followingCount |-> Len(userFollowing(userId))]]

(***************************************************************************)
(* Posts controller and its request validators.                            *)
(***************************************************************************)
\* Joi max(1000) of createPostSchema
MaxContentLen == 1000

\* String.prototype.trim over the two-letter alphabet {" ", "a"}
RECURSIVE TrimStart(_)
TrimStart(str) ==
  IF str # <<>> /\ Head(str) = " " THEN TrimStart(Tail(str)) ELSE str

Trim(str) == Reverse(TrimStart(Reverse(TrimStart(str))))

\* createPostSchema: Joi.string().min(1).max(1000).required(), no trim()
createPostSchema(content) == Len(content) >= 1 /\ Len(content) <= MaxContentLen

\* postIdSchema: the id matches /^[a-zA-Z0-9_-]+$/
postIdSchema(id) == id[1] # "invalid@id"

\* Array.prototype.sort with a comparator is stable: insertion keeps the
\* order of elements the comparator calls equal.  Elements carry their
\* sort key in the field key; the result is ascending in key.
RECURSIVE InsertSorted(_, _)
InsertSorted(sorted, x) ==
  IF sorted = <<>> THEN <<x>>
  ELSE IF x.key < Head(sorted).key THEN <<x>> \o sorted
  ELSE <<Head(sorted)>> \o InsertSorted(Tail(sorted), x)

RECURSIVE SortFrom(_, _, _)
SortFrom(seq, i, acc) ==
  IF i > Len(seq) THEN acc
  ELSE SortFrom(seq, i + 1, InsertSorted(acc, seq[i]))

\* the sort left out
StableSort_unsorted(seq) == seq

StableSort(seq) == SortFrom(seq, 1, <<>>)

\* posts.findIndex(post => post.id === id && !post.isDeleted)
findPost(id) == FindIndex(posts, LAMBDA post : post.id = id /\ ~post.isDeleted)

\* deletePost, had it also blanked the content of the post it hides
deletePost_clearContent(user, id, t) ==
  LET postIndex == findPost(id) IN
  IF postIndex = 0
    THEN [res |-> Fail(404, "POST_NOT_FOUND"), posts |-> posts]
  ELSE IF user.role # "admin" /\ posts[postIndex].author # user.id
    THEN [res |-> Fail(403, "DELETE_PERMISSION_DENIED"), posts |-> posts]
  ELSE [res |-> [status |-> 200, code |-> "",
                 body |-> [deletedPost |->
                             [id |-> posts[postIndex].id,
                              author |-> posts[postIndex].author,
                              row |-> postIndex, deletedAt |-> t]]],
        posts |-> [posts EXCEPT ![postIndex].isDeleted = TRUE,
                                ![postIndex].updatedAt = t,
                                ![postIndex].content = <<>>]]

deletePost(user, id, t) ==
  LET postIndex == findPost(id) IN
  IF postIndex = 0
    THEN [res |-> Fail(404, "POST_NOT_FOUND"), posts |-> posts]
  ELSE IF user.role # "admin" /\ posts[postIndex].author # user.id
    THEN [res |-> Fail(403, "DELETE_PERMISSION_DENIED"), posts |-> posts]
  ELSE [res |-> [status |-> 200, code |-> "",
                 body |-> [deletedPost |->
                             [id |-> posts[postIndex].id,
                              author |-> posts[postIndex].author,
                              row |-> postIndex, deletedAt |-> t]]],
        posts |-> [posts EXCEPT ![postIndex].isDeleted = TRUE,
                                ![postIndex].updatedAt = t]]

PostView(i) ==
  [id |-> posts[i].id, author |-> posts[i].author, content |-> posts[i].content,
   created |-> posts[i].created, row |-> i]

\* getAllPosts, had it validated the page only
getAllPosts_pageOnly(page, limit, author, sortOrder) ==
  LET pageNum == page
      limitNum == Min(limit, MaxPageLimit)
      skip == (pageNum - 1) * limitNum
  IN IF pageNum < 1 THEN Fail(400, "INVALID_PAGINATION")
     ELSE LET rows == Positions(posts,
                        LAMBDA post : ~post.isDeleted
                                      /\ (author # "" => post.author = author))
              order == IF sortOrder = "undefined" THEN "desc" ELSE sortOrder
              sortMultiplier == IF order = "desc" THEN -1 ELSE 1
              filteredPosts ==
                StableSort([k \in 1..Len(rows) |->
                              [row |-> rows[k],
                               key |-> posts[rows[k]].created * sortMultiplier]])
              totalPosts == Len(filteredPosts)
              totalPages == IF limitNum < 1 THEN 0
                            ELSE (totalPosts + limitNum - 1) \div limitNum
              paginated == Slice(filteredPosts, skip, skip + limitNum)
          IN [status |-> 200, code |-> "",
              body |-> [posts |-> [k \in 1..Len(paginated) |-> PostView(paginated[k].row)],
                        currentPage |-> pageNum, totalPages |-> totalPages,
                        totalPosts |-> totalPosts, postsPerPage |-> limitNum,
                        hasNextPage |-> pageNum < totalPages,
                        hasPrevPage |-> pageNum > 1]]

\* getAllPosts; author = "" is the absent filter, sortOrder = "undefined" the
\* absent sortOrder, page and limit the parsed numbers
getAllPosts(page, limit, author, sortOrder) ==
  LET pageNum == page
      limitNum == Min(limit, MaxPageLimit)
      skip == (pageNum - 1) * limitNum
  IN IF pageNum < 1 \/ limitNum < 1 THEN Fail(400, "INVALID_PAGINATION")
     ELSE LET rows == Positions(posts,
                        LAMBDA post : ~post.isDeleted
                                      /\ (author # "" => post.author = author))
              order == IF sortOrder = "undefined" THEN "desc" ELSE sortOrder
              sortMultiplier == IF order = "desc" THEN -1 ELSE 1
              filteredPosts ==
                StableSort([k \in 1..Len(rows) |->
                              [row |-> rows[k],
                               key |-> posts[rows[k]].created * sortMultiplier]])
              totalPosts == Len(filteredPosts)
              totalPages == (totalPosts + limitNum - 1) \div limitNum
              paginated == Slice(filteredPosts, skip, skip + limitNum)
          IN [status |-> 200, code |-> "",
              body |-> [posts |-> [k \in 1..Len(paginated) |-> PostView(paginated[k].row)],
                        currentPage |-> pageNum, totalPages |-> totalPages,
                        totalPosts |-> totalPosts, postsPerPage |-> limitNum,
                        hasNextPage |-> pageNum < totalPages,
                        hasPrevPage |-> pageNum > 1]]

getPostById(id) ==
  LET i == findPost(id) IN
  IF i = 0 THEN Fail(404, "POST_NOT_FOUND")
  ELSE [status |-> 200, code |-> "",
        body |-> [post |-> [id |-> posts[i].id, author |-> posts[i].author,
                            row |-> i, isDeleted |-> posts[i].isDeleted]]]

createPost(user, content, t) ==
  LET newPost == [id |-> PostId(t), author |-> user.id, content |-> Trim(content),
                  created |-> t, isDeleted |-> FALSE, updatedAt |-> t]
  IN [res |-> [status |-> 201, code |-> "",
               body |-> [post |-> [id |-> newPost.id, author |-> newPost.author,
                                   content |-> newPost.content,
                                   row |-> Len(posts) + 1]]],
      posts |-> Append(posts, newPost)]

(***************************************************************************)
(* Feed aggregation: the pipeline of getFollowingsPosts run on the follows *)
(* collection, stage by stage.                                             *)
(***************************************************************************)
\* { $match: { follower: userId } }
matchStage(userId) == Positions(follows, LAMBDA f : f.follower = userId)

\* $lookup from posts on following = author, then $unwind
lookupPosts(edges) ==
  Flatten([k \in 1..Len(edges) |->
    LET ps == Positions(posts, LAMBDA p : p.author = follows[edges[k]].following)
    IN [j \in 1..Len(ps) |-> [edge |-> edges[k], post |-> ps[j]]]])

\* $lookup from users on posts.author = _id, then $unwind
lookupAuthor(docs) ==
  Flatten([k \in 1..Len(docs) |->
    LET us == Positions(users, LAMBDA u : u.id = posts[docs[k].post].author)
    IN [j \in 1..Len(us) |-> [edge |-> docs[k].edge, post |-> docs[k].post,
                              author |-> us[j]]]])

\* $project
projectStage(docs) ==
  [k \in 1..Len(docs) |->
     [id |-> posts[docs[k].post].id, content |-> posts[docs[k].post].content,
      created |-> posts[docs[k].post].created,
      authorName |-> users[docs[k].author].name,
      row |-> docs[k].post, edge |-> docs[k].edge]]

\* { $sort: { created: -1 } }: documents with equal keys come out in an
\* order the server does not promise; tieOrder picks one of two
sortStage(docs, tieOrder) ==
  LET input == IF tieOrder = "reverse" THEN Reverse(docs) ELSE docs
      sorted == StableSort([k \in 1..Len(input) |->
                              [doc |-> input[k], key |-> -input[k].created]])
  IN [k \in 1..Len(sorted) |-> sorted[k].doc]

\* { $limit: 10 }
limitStage(docs) == SubSeq(docs, 1, Min(FeedLimit, Len(docs)))

getFollowingsPosts(userId, tieOrder) ==
  limitStage(sortStage(projectStage(lookupAuthor(lookupPosts(matchStage(userId)))),
                       tieOrder))

(***************************************************************************)
(* Requests.  The inputs of the requests are drawn from these sets.        *)
(***************************************************************************)
MaxClock == StartClock + MaxTicks

\* the clock never runs backwards.  createPost, whose post id is the clock
\* reading, may see it advanced; the other handlers see the last reading.
ClockReadings == {t \in now..(now + 1) : t <= MaxClock}

\* the positions in users of the accounts that log in: the admin and a user
Callers == {1, 2}

\* the Authorization header of a caller who logged in at start-up
ValidHeader(c) == <<"Bearer", generateToken(SeedUsers[c], StartClock)>>

Headers == {ValidHeader(c) : c \in Callers} \cup {NoHeader}

\* the headers of the requests that create posts: those of the user
AuthorHeaders == {ValidHeader(2), NoHeader}

UserIdInputs == {"u2", "u3", "nonexistent"}

Viewers == {"u1", "u2"}

\* the newest seeded post of an author
NewestSeedPostOf(author) ==
  PostId(CHOOSE i \in 1..NumSeedPosts :
           /\ SeedPosts[i].author = author
           /\ \A j \in (i + 1)..NumSeedPosts : SeedPosts[j].author # author)

PostIdInputs ==
  {NewestSeedPostOf("u2")}
    \cup {PostId(t) : t \in StartClock..MaxClock}
    \cup {<<"nonexistent", 0>>, <<"invalid@id", 0>>}

ContentInputs == {<<"a">>, <<>>}

AuthorFilters == {"", "u2"}

SortOrders == {"desc", "asc"}

TieOrders == {"stable", "reverse"}

Response(op, hdr, arg, res, user) ==
  [op |-> op, hdr |-> hdr, arg |-> arg, status |-> res.status,
   code |-> res.code, body |-> res.body, user |-> user]

\* the response of a request the authorize middleware stops
AuthDenied(op, hdr, arg, auth) ==
  [op |-> op, hdr |-> hdr, arg |-> arg, status |-> auth.status,
   code |-> auth.code,
   body |-> [message |-> auth.message, requiredRoles |-> auth.requiredRoles,
             userRole |-> auth.userRole],
   user |-> NoUser]

NoResp ==
  [op |-> "none", hdr |-> NoHeader, arg |-> <<>>, status |-> 0, code |-> "",
   body |-> <<>>, user |-> NoUser]

Init ==
  /\ users = SeedUsers
  /\ follows = SeedFollows
  /\ posts = SeedPosts
  /\ now = StartClock
  /\ resp = NoResp

\* POST /follows/:userId
FollowUser(hdr, userId) ==
  LET t == now IN
    LET auth == requireAuth(hdr, t) IN
    /\ UNCHANGED now
    /\ UNCHANGED <<users, posts>>
    /\ IF ~auth.pass
         THEN /\ resp' = AuthDenied("followUser", hdr, userId, auth)
              /\ UNCHANGED follows
         ELSE LET r == followUser(auth.user, userId, t) IN
              /\ Len(r.follows) <= Len(SeedFollows) + MaxNewEdges
              /\ follows' = r.follows
              /\ resp' = Response("followUser", hdr, userId, r.res, auth.user)

\* DELETE /follows/:userId
UnfollowUser(hdr, userId) ==
  LET t == now IN
    LET auth == requireAuth(hdr, t) IN
    /\ UNCHANGED now
    /\ UNCHANGED <<users, posts>>
    /\ IF ~auth.pass
         THEN /\ resp' = AuthDenied("unfollowUser", hdr, userId, auth)
              /\ UNCHANGED follows
         ELSE LET r == unfollowUser(auth.user, userId, t) IN
              /\ follows' = r.follows
              /\ resp' = Response("unfollowUser", hdr, userId, r.res, auth.user)

\* a GET of the follows router: requireAuth, then the handler
FollowsQuery(op, hdr, arg, res) ==
  LET t == now IN
    LET auth == requireAuth(hdr, t) IN
    /\ UNCHANGED now
    /\ UNCHANGED <<users, follows, posts>>
    /\ resp' = IF ~auth.pass THEN AuthDenied(op, hdr, arg, auth)
               ELSE Response(op, hdr, arg, res, auth.user)

\* GET /follows/followers/:userId
GetFollowers(hdr, userId) ==
  FollowsQuery("getFollowers", hdr, userId, getFollowers(userId, 1, DefaultLimit))

\* GET /follows/following/:userId
GetFollowing(hdr, userId) ==
  FollowsQuery("getFollowing", hdr, userId, getFollowing(userId, 1, DefaultLimit))

\* GET /follows/check/:userId
CheckFollowStatus(hdr, userId) ==
  LET t == now IN
    LET auth == requireAuth(hdr, t) IN
    /\ UNCHANGED now
    /\ UNCHANGED <<users, follows, posts>>
    /\ resp' = IF ~auth.pass THEN AuthDenied("checkFollowStatus", hdr, userId, auth)
               ELSE Response("checkFollowStatus", hdr, userId,
                             checkFollowStatus(auth.user, userId), auth.user)

\* GET /follows/stats/:userId
GetFollowStats(hdr, userId) ==
  FollowsQuery("getFollowStats", hdr, userId, getFollowStats(userId))

\* DELETE /posts/:id: requireAdmin, validate(postIdSchema), deletePost
DeletePost(hdr, id) ==
  LET t == now IN
    LET auth == requireAdmin(hdr, t) IN
    /\ UNCHANGED now
    /\ UNCHANGED <<users, follows>>
    /\ IF ~auth.pass
         THEN /\ resp' = AuthDenied("deletePost", hdr, id, auth)
              /\ UNCHANGED posts
         ELSE IF ~postIdSchema(id)
           THEN /\ resp' = Response("deletePost", hdr, id,
                                    Fail(400, "VALIDATION_ERROR"), auth.user)
                /\ UNCHANGED posts
         ELSE LET r == deletePost(auth.user, id, t) IN
              /\ posts' = r.posts
              /\ resp' = Response("deletePost", hdr, id, r.res, auth.user)

\* POST /posts: requireUserOrAdmin, validate(createPostSchema), createPost
CreatePost(hdr, content) ==
  \E t \in ClockReadings :
    LET auth == requireUserOrAdmin(hdr, t) IN
    /\ now' = t
    /\ UNCHANGED <<users, follows>>
    /\ IF ~auth.pass
         THEN /\ resp' = AuthDenied("createPost", hdr, content, auth)
              /\ UNCHANGED posts
         ELSE IF ~createPostSchema(content)
           THEN /\ resp' = Response("createPost", hdr, content,
                                    Fail(400, "VALIDATION_ERROR"), auth.user)
                /\ UNCHANGED posts
         ELSE LET r == createPost(auth.user, content, t) IN
              /\ Len(r.posts) <= NumSeedPosts + MaxNewPosts
              /\ posts' = r.posts
              /\ resp' = Response("createPost", hdr, content, r.res, auth.user)

\* GET /posts: no authentication
GetAllPosts(page, limit, author, sortOrder) ==
  /\ resp' = Response("getAllPosts", NoHeader, <<page, limit, author, sortOrder>>,
                      getAllPosts(page, limit, author, sortOrder), NoUser)
  /\ UNCHANGED <<users, follows, posts, now>>

\* GET /posts/:id: validate(postIdSchema), getPostById
GetPostById(id) ==
  /\ resp' = Response("getPostById", NoHeader, id,
                      IF postIdSchema(id) THEN getPostById(id)
                      ELSE Fail(400, "VALIDATION_ERROR"), NoUser)
  /\ UNCHANGED <<users, follows, posts, now>>

\* executeAggregation(db, userId)
Feed(userId, tieOrder) ==
  /\ resp' = Response("feed", NoHeader, userId,
                      [status |-> 200, code |-> "",
                       body |-> getFollowingsPosts(userId, tieOrder)], NoUser)
  /\ UNCHANGED <<users, follows, posts, now>>

\* the requests to the follows router, as <<header, userId>>: every header
\* with every user id, and the admin naming itself
FollowRequests ==
  (Headers \X UserIdInputs) \cup {<<ValidHeader(1), "u1">>}

\* rows appended or soft-deleted since start-up
Mutations(f, p) ==
  (Len(f) - Len(SeedFollows)) + Cardinality({i \in 1..Len(f) : f[i].isDeleted})
    + (Len(p) - NumSeedPosts) + Cardinality({i \in 1..Len(p) : p[i].isDeleted})

\* the whole API performs at most MaxMutations successful writes
Budget == Mutations(follows, posts) <= MaxMutations

\* the follows router and the feed, the post store left as seeded
NextFollows ==
  \/ \E rq \in FollowRequests : FollowUser(rq[1], rq[2])
  \/ \E rq \in FollowRequests : UnfollowUser(rq[1], rq[2])
  \/ \E rq \in FollowRequests : GetFollowers(rq[1], rq[2])
  \/ \E rq \in FollowRequests : GetFollowing(rq[1], rq[2])
  \/ \E rq \in FollowRequests : CheckFollowStatus(rq[1], rq[2])
  \/ \E rq \in FollowRequests : GetFollowStats(rq[1], rq[2])
  \/ \E userId \in Viewers, tieOrder \in TieOrders : Feed(userId, tieOrder)

\* the posts router and the feed, the ledger left as seeded
NextPosts ==
  \/ \E hdr \in Headers, id \in PostIdInputs : DeletePost(hdr, id)
  \/ \E hdr \in AuthorHeaders, content \in ContentInputs : CreatePost(hdr, content)
  \/ \E author \in AuthorFilters, sortOrder \in SortOrders :
       GetAllPosts(1, DefaultLimit, author, sortOrder)
  \/ \E id \in PostIdInputs : GetPostById(id)
  \/ \E userId \in Viewers, tieOrder \in TieOrders : Feed(userId, tieOrder)

\* every route: the writes with all their inputs, the queries with one
\* request each
Next ==
  \/ \E rq \in FollowRequests : FollowUser(rq[1], rq[2]) /\ Budget'
  \/ \E rq \in FollowRequests : UnfollowUser(rq[1], rq[2]) /\ Budget'
  \/ GetFollowers(ValidHeader(1), "u2")
  \/ GetFollowing(ValidHeader(1), "u2")
  \/ CheckFollowStatus(ValidHeader(1), "u2")
  \/ GetFollowStats(ValidHeader(1), "u2")
  \/ \E hdr \in Headers, id \in PostIdInputs : DeletePost(hdr, id) /\ Budget'
  \/ \E hdr \in AuthorHeaders, content \in ContentInputs :
       CreatePost(hdr, content) /\ Budget'
  \/ GetAllPosts(1, DefaultLimit, "", "desc")
  \/ GetPostById(NewestSeedPostOf("u2"))
  \/ \E tieOrder \in TieOrders : Feed("u1", tieOrder)

Spec == Init /\ [][Next]_vars

SpecFollows == Init /\ [][NextFollows]_vars

SpecPosts == Init /\ [][NextPosts]_vars

(***************************************************************************)
(* The authentication middleware on its own.  The clock runs over the      *)
(* lifetime of the tokens; a request carries any header a client can send: *)
(* none, a malformed one, a token this server signed earlier, such a token *)
(* with an altered signature segment, or a string that is no JWT.          *)
(***************************************************************************)
\* clock readings, half a token lifetime apart
MaxAuthTicks == 3

AuthClock(k) == StartClock + k * (TokenTtl * 500)

\* the tokens generateToken has signed so far
IssuedTokens ==
  {generateToken(SeedUsers[c], AuthClock(k)) :
     c \in Callers, k \in {j \in 0..MaxAuthTicks : AuthClock(j) <= now}}

\* a token with one altered character in its signature segment
Tamper(token) == [token EXCEPT !.sig = "altered"]

\* 'invalid.token.here'
GarbageToken == [form |-> "garbage", id |-> "", role |-> "", name |-> "",
                 exp |-> 0, sig |-> ""]

AuthTokens == IssuedTokens \cup {Tamper(tok) : tok \in IssuedTokens} \cup {GarbageToken}

AuthHeaders ==
  {NoHeader, <<"Bearer">>, <<"InvalidFormat", GarbageToken>>}
    \cup {<<"Bearer", tok>> : tok \in AuthTokens}

RoleSets == {<<"admin">>, <<"user", "admin">>, <<"user">>, <<>>}

\* a route guarded by authorize(roles) whose handler does nothing else
Authorize(roles, hdr) ==
  LET auth == authorize(roles, hdr, now) IN
  /\ resp' = [op |-> "authorize", hdr |-> hdr, arg |-> roles, at |-> now,
              status |-> auth.status, code |-> auth.code,
              body |-> [message |-> auth.message,
                        requiredRoles |-> auth.requiredRoles,
                        userRole |-> auth.userRole],
              user |-> auth.user, steps |-> auth.steps,
              nextCalls |-> auth.nextCalls]
  /\ UNCHANGED <<users, follows, posts, now>>

\* a route behind optionalAuth
OptionalAuth(hdr) ==
  LET auth == optionalAuth(hdr, now) IN
  /\ resp' = [op |-> "optionalAuth", hdr |-> hdr, arg |-> <<>>, at |-> now,
              status |-> 0, code |-> "", body |-> <<>>,
              user |-> auth.user, sent |-> auth.sent,
              nextCalls |-> auth.nextCalls]
  /\ UNCHANGED <<users, follows, posts, now>>

\* verifyToken(token) called directly
VerifyToken(token) ==
  /\ resp' = [op |-> "verifyToken", hdr |-> NoHeader, arg |-> token, at |-> now,
              status |-> 0, code |-> "", body |-> verifyToken(token, now),
              user |-> NoUser]
  /\ UNCHANGED <<users, follows, posts, now>>

\* time passes
AuthTick ==
  /\ \E k \in 1..MaxAuthTicks : now = AuthClock(k - 1) /\ now' = AuthClock(k)
  /\ UNCHANGED <<users, follows, posts, resp>>

NextAuth ==
  \/ \E roles \in RoleSets, hdr \in AuthHeaders : Authorize(roles, hdr)
  \/ \E hdr \in AuthHeaders : OptionalAuth(hdr)
  \/ \E token \in AuthTokens : VerifyToken(token)
  \/ AuthTick

SpecAuth == Init /\ [][NextAuth]_vars

(***************************************************************************)
(* The post list under its query parameters.                               *)
(***************************************************************************)
PageInputs == {-1, 0, 1, 2, 3}

LimitInputs == {0, 5, 10, 60}

ListSortOrders == {"undefined", "desc", "asc"}

NextList ==
  \/ \E id \in PostIdInputs : DeletePost(ValidHeader(1), id) /\ Budget'
  \/ CreatePost(ValidHeader(2), <<"a">>) /\ Budget'
  \/ \E page \in PageInputs, limit \in LimitInputs,
        author \in AuthorFilters, sortOrder \in ListSortOrders :
       GetAllPosts(page, limit, author, sortOrder)

SpecList == Init /\ [][NextList]_vars

(***************************************************************************)
(* Post creation under its content inputs.                                 *)
(***************************************************************************)
\* 'a'.repeat(n)
Repeat(n) == [i \in 1..n |-> "a"]

CreateContents ==
  {<<>>, <<"a">>, <<" ">>, <<" ", "a", " ">>,
   Repeat(MaxContentLen), Repeat(MaxContentLen + 1),
   <<" ">> \o Repeat(MaxContentLen)}

NextCreate ==
  \/ \E hdr \in AuthorHeaders, content \in CreateContents : CreatePost(hdr, content)
  \/ \E id \in PostIdInputs : GetPostById(id)
  \/ \E id \in PostIdInputs : DeletePost(ValidHeader(1), id) /\ Budget'

SpecCreate == Init /\ [][NextCreate]_vars

(***************************************************************************)
(* The whole API with the queries that fail: the writes of Spec, and each  *)
(* query once without a token or on a missing or malformed target.         *)
(***************************************************************************)
NextFail ==
  \/ \E rq \in FollowRequests : FollowUser(rq[1], rq[2]) /\ Budget'
  \/ \E rq \in FollowRequests : UnfollowUser(rq[1], rq[2]) /\ Budget'
  \/ \E hdr \in Headers, id \in PostIdInputs : DeletePost(hdr, id) /\ Budget'
  \/ \E hdr \in AuthorHeaders, content \in ContentInputs :
       CreatePost(hdr, content) /\ Budget'
  \/ GetFollowers(NoHeader, "u2")
  \/ GetFollowing(ValidHeader(2), "nonexistent")
  \/ CheckFollowStatus(NoHeader, "u3")
  \/ GetFollowStats(ValidHeader(1), "nonexistent")
  \/ GetAllPosts(0, DefaultLimit, "", "desc")
  \/ \E id \in {<<"nonexistent", 0>>, <<"invalid@id", 0>>} : GetPostById(id)

SpecFail == Init /\ [][NextFail]_vars

(***************************************************************************)
(* The follows router over account stores that have drifted from the       *)
(* ledger.  The account store is the array the users module exports; the   *)
(* handlers read it on every request and never write it.  Besides the      *)
(* seeded array the model starts from one in which the record of u3 has    *)
(* its isActive flag cleared, and from one in which that record is gone    *)
(* while the ledger still names u3 and u3 still holds a token.  The list   *)
(* routes take their page and limit from the query string.                 *)
(***************************************************************************)
\* the account store with the record of userId flagged inactive
Deactivated(store, userId) ==
  [i \in 1..Len(store) |->
     IF store[i].id = userId THEN [store[i] EXCEPT !.isActive = FALSE]
     ELSE store[i]]

\* the account store without the record of userId
Removed(store, userId) == SelectSeq(store, LAMBDA u : u.id # userId)

AccountStores ==
  {SeedUsers, Deactivated(SeedUsers, "u3"), Removed(SeedUsers, "u3")}

InitStores ==
  /\ users \in AccountStores
  /\ follows = SeedFollows
  /\ posts = SeedPosts
  /\ now = StartClock
  /\ resp = NoResp

\* userIdSchema: the route parameter is a string whenever the route matches
userIdSchema(userId) == userId \in STRING

\* followQuerySchema: page and limit are numbers of at least 1
followQuerySchema(page, limit) == page >= 1 /\ limit >= 1

\* validate, had it called next() also when the schema rejects the request
validate_alwaysNext(valid) == [pass |-> TRUE, res |-> Fail(400, "VALIDATION_ERROR")]

\* validate(schema): answers 400 VALIDATION_ERROR when the schema rejects
\* the request and calls next() otherwise
validate(valid) == [pass |-> valid, res |-> Fail(400, "VALIDATION_ERROR")]

\* GET /follows/followers/:userId?page=&limit=
GetFollowersPage(hdr, userId, page, limit) ==
  LET v == validate(userIdSchema(userId) /\ followQuerySchema(page, limit)) IN
    FollowsQuery("getFollowers", hdr, <<userId, page, limit>>,
                 IF v.pass THEN getFollowers(userId, page, limit) ELSE v.res)

\* GET /follows/following/:userId?page=&limit=
GetFollowingPage(hdr, userId, page, limit) ==
  LET v == validate(userIdSchema(userId) /\ followQuerySchema(page, limit)) IN
    FollowsQuery("getFollowing", hdr, <<userId, page, limit>>,
                 IF v.pass THEN getFollowing(userId, page, limit) ELSE v.res)

\* the callers: the admin, a user, and the user whose account drifts
StoreHeaders == {ValidHeader(1), ValidHeader(2), ValidHeader(3)}

StoreTargets == {"u3", "nonexistent"}

ListedUsers == {"u1", "u3"}

FollowPages == {0, 1, 2}

FollowLimits == {0, 1, 60}

NextStores ==
  \/ \E hdr \in StoreHeaders, userId \in StoreTargets : FollowUser(hdr, userId)
  \/ \E hdr \in StoreHeaders, userId \in StoreTargets : UnfollowUser(hdr, userId)
  \/ \E userId \in ListedUsers, page \in FollowPages, limit \in FollowLimits :
       GetFollowersPage(ValidHeader(1), userId, page, limit)
  \/ \E userId \in ListedUsers, page \in FollowPages, limit \in FollowLimits :
       GetFollowingPage(ValidHeader(1), userId, page, limit)

SpecStores == InitStores /\ [][NextStores]_vars

(***************************************************************************)
(* The aggregation demo: setupTestData fills the three collections, one    *)
(* document after the other, and executeAggregation runs the pipeline for  *)
(* a user on whatever the collections hold.  A post's created is the rank  *)
(* of its timestamp among the four timestamps of the test data.            *)
(***************************************************************************)
TestUsers ==
  << [id |-> "u1", name |-> "Alice"], [id |-> "u2", name |-> "Bob"],
     [id |-> "u3", name |-> "Charlie"] >>

TestFollows ==
  << [follower |-> "u1", following |-> "u2"],
     [follower |-> "u1", following |-> "u3"],
     [follower |-> "u2", following |-> "u1"] >>

\* the four kinds of test post: author, content, created
TestPostKinds ==
  << [author |-> "u2", content |-> "Hello!", created |-> 1],
     [author |-> "u2", content |-> "Hey Bob", created |-> 2],
     [author |-> "u3", content |-> "Great day!", created |-> 3],
     [author |-> "u2", content |-> "Working on new features", created |-> 4] >>

\* the kind of p1 .. p22, in the order of insertMany
TestPostOrder ==
  <<1, 2, 3, 4, 1, 2, 3, 4, 1, 2, 1, 2, 3, 4, 1, 2, 3, 4, 1, 2, 3, 4>>

TestPosts ==
  [n \in 1..Len(TestPostOrder) |->
     [id |-> PostId(n), author |-> TestPostKinds[TestPostOrder[n]].author,
      content |-> TestPostKinds[TestPostOrder[n]].content,
      created |-> TestPostKinds[TestPostOrder[n]].created]]

\* the collections after the three deleteMany of the demo
InitFeed ==
  /\ users = <<>>
  /\ follows = <<>>
  /\ posts = <<>>
  /\ now = StartClock
  /\ resp = NoResp

\* db.collection('users').insertMany: the next document
InsertUser ==
  /\ Len(users) < Len(TestUsers)
  /\ users' = Append(users, TestUsers[Len(users) + 1])
  /\ UNCHANGED <<follows, posts, now, resp>>

\* db.collection('follows').insertMany, awaited after that of users
InsertFollow ==
  /\ Len(users) = Len(TestUsers)
  /\ Len(follows) < Len(TestFollows)
  /\ follows' = Append(follows, TestFollows[Len(follows) + 1])
  /\ UNCHANGED <<users, posts, now, resp>>

\* db.collection('posts').insertMany, awaited after that of follows
InsertPost ==
  /\ Len(follows) = Len(TestFollows)
  /\ Len(posts) < Len(TestPosts)
  /\ posts' = Append(posts, TestPosts[Len(posts) + 1])
  /\ UNCHANGED <<users, follows, now, resp>>

FeedViewers == {"u1", "u2", "u3"}

NextFeed ==
  \/ InsertUser
  \/ InsertFollow
  \/ InsertPost
  \/ \E userId \in FeedViewers, tieOrder \in TieOrders : Feed(userId, tieOrder)

SpecFeed == InitFeed /\ [][NextFeed]_vars

(***************************************************************************)
(* The debug module: getSortedPosts_OPTIMIZED on the Posts collection.     *)
(* posts is the collection, now the clock in milliseconds, and resp the    *)
(* call in progress or the outcome of the last call: pc is "awaiting"      *)
(* while the function waits for find().sort().skip().limit().toArray(),    *)
(* "returned" once it has returned its result and "thrown" once it has     *)
(* rethrown the error of the query.  The store answers when it answers:    *)
(* the query may resolve or reject at any clock reading, or stay pending.  *)
(***************************************************************************)
\* the number of test posts initializeDB inserts (10000 in the source)
MaxTestPosts == 12

\* the clock readings of a run, in steps of PostSpacing
MaxDebugTicks == 7

\* const timeout = 5000
Timeout == 5000

\* the test posts are one second apart; the clock of the model ticks in
\* the same unit
PostSpacing == 1000

DebugPage == 1

\* Array.from({ length: 10000 }, (_, i) => ...) at clock reading t
TestDebugPosts(t) ==
  [k \in 1..MaxTestPosts |->
     [content |-> <<"Post", k - 1>>, author |-> <<"user", (k - 1) % 10>>,
      created |-> t - (k - 1) * PostSpacing]]

\* the model starts from an empty collection, so the collection holds
\* documents exactly when initializeDB has run
isInitialized == posts # <<>>

\* Posts.find().sort({ created: -1 }).skip(skip).limit(limit).toArray()
findSorted(skip, limit) ==
  LET sorted == StableSort([k \in 1..Len(posts) |->
                              [doc |-> posts[k], key |-> -posts[k].created]])
  IN Slice([k \in 1..Len(sorted) |-> sorted[k].doc], skip, skip + limit)

DriverErrors == {"connection closed"}

InitDebug ==
  /\ users = <<>>
  /\ follows = <<>>
  /\ posts = <<>>
  /\ now = StartClock
  /\ resp = NoResp

\* the call up to its await of the query: initializeDB on the first call,
\* start = Date.now(), then the query is sent
CallOptimized ==
  /\ IF resp.op = "none" THEN TRUE ELSE resp.pc \in {"returned", "thrown"}
  /\ posts' = IF isInitialized THEN posts ELSE TestDebugPosts(now)
  /\ resp' = [op |-> "getSortedPosts_OPTIMIZED", pc |-> "awaiting",
              start |-> now, timeout |-> Timeout]
  /\ UNCHANGED <<users, follows, now>>

\* the query resolves: the function builds and returns its result
QueryResolves ==
  /\ resp.op = "getSortedPosts_OPTIMIZED" /\ resp.pc = "awaiting"
  /\ LET limit == DefaultLimit
         found == findSorted((DebugPage - 1) * limit, limit)
     IN resp' = [op |-> resp.op, pc |-> "returned", start |-> resp.start,
                 timeout |-> resp.timeout, duration |-> now - resp.start,
                 posts |-> found,
                 pagination |-> [page |-> DebugPage, limit |-> limit,
                                 total |-> Len(found),
                                 pages |-> (Len(found) + limit - 1) \div limit]]
  /\ UNCHANGED <<users, follows, posts, now>>

\* the query rejects: the catch logs the error and rethrows it
QueryRejects(message) ==
  /\ resp.op = "getSortedPosts_OPTIMIZED" /\ resp.pc = "awaiting"
  /\ resp' = [op |-> resp.op, pc |-> "thrown", start |-> resp.start,
              timeout |-> resp.timeout, duration |-> now - resp.start,
              error |-> message]
  /\ UNCHANGED <<users, follows, posts, now>>

\* time passes
DebugTick ==
  /\ now + PostSpacing <= StartClock + MaxDebugTicks * PostSpacing
  /\ now' = now + PostSpacing
  /\ UNCHANGED <<users, follows, posts, resp>>

NextDebug ==
  \/ CallOptimized
  \/ QueryResolves
  \/ \E message \in DriverErrors : QueryRejects(message)
  \/ DebugTick

SpecDebug == InitDebug /\ [][NextDebug]_vars

(***************************************************************************)
(* Properties.                                                             *)
(***************************************************************************)
UserHeader == ValidHeader(2)

\* some active edge leads from a to b
ActiveEdge(a, b) ==
  \E i \in 1..Len(follows) :
    follows[i].follower = a /\ follows[i].following = b /\ ~follows[i].isDeleted

C2_SecondDeleteNotFound ==
  [][ /\ (/\ resp'.op = "deletePost"
          /\ resp'.user.role = "admin"
          /\ \E i \in 1..Len(posts) : posts[i].id = resp'.arg /\ ~posts[i].isDeleted)
           => /\ resp'.status = 200
              /\ resp'.body.deletedPost.id = resp'.arg
      /\ (/\ resp.op = "deletePost" /\ resp.status = 200
          /\ resp'.op = "deletePost" /\ resp'.user.role = "admin"
          /\ resp'.arg = resp.arg)
           => /\ resp'.status = 404
              /\ resp'.code = "POST_NOT_FOUND"
              /\ posts' = posts
    ]_vars

\* what the follow check and the follow statistics answer for caller c and b
IsFollowing(c, b) == checkFollowStatus(SeedUsers[c], b).body.isFollowing
FollowersCount(b) == getFollowStats(b).body.followersCount

\* C3: a successful follow(a,b) makes the follow check true and raises b's
\* followersCount by one; a successful unfollow(a,b) makes the check false,
\* lowers the count by one and keeps the edge row, marked isDeleted.
C3_FollowUnfollowCounts ==
  [][ \A c \in Callers, b \in UserIdInputs :
        /\ (/\ resp'.op = "followUser" /\ resp'.status = 201
            /\ resp'.user.id = SeedUsers[c].id /\ resp'.arg = b)
             => /\ IsFollowing(c, b)'
                /\ FollowersCount(b)' = FollowersCount(b) + 1
        /\ (/\ resp'.op = "unfollowUser" /\ resp'.status = 200
            /\ resp'.user.id = SeedUsers[c].id /\ resp'.arg = b)
             => /\ ~IsFollowing(c, b)'
                /\ FollowersCount(b)' = FollowersCount(b) - 1
                /\ Len(follows') = Len(follows)
                /\ \E i \in 1..Len(follows') :
                     /\ follows'[i].id = resp'.body.id
                     /\ follows'[i].follower = SeedUsers[c].id
                     /\ follows'[i].following = b
                     /\ follows'[i].isDeleted
    ]_vars

\* an edge created by a follow request has just been unfollowed
C3_Witness ==
  /\ resp.op = "unfollowUser"
  /\ resp.status = 200
  /\ \E i \in (Len(SeedFollows) + 1)..Len(follows) :
       follows[i].id = resp.body.id /\ follows[i].isDeleted

\* C4: no edge joins an account to itself, and no ordered pair has two
\* active edges.
C4_LedgerInvariant ==
  /\ \A i \in 1..Len(follows) : follows[i].follower # follows[i].following
  /\ \A i, j \in 1..Len(follows) :
       (/\ i < j
        /\ follows[i].follower = follows[j].follower
        /\ follows[i].following = follows[j].following)
         => follows[i].isDeleted \/ follows[j].isDeleted

\* a pair that was unfollowed and followed again: two rows, one active
C4_Witness ==
  \E i, j \in 1..Len(follows) :
    /\ i < j
    /\ follows[i].follower = follows[j].follower
    /\ follows[i].following = follows[j].following
    /\ follows[i].isDeleted
    /\ ~follows[j].isDeleted

\* C5: a follow or unfollow request naming the caller is answered 400 with
\* SELF_FOLLOW_ERROR or SELF_UNFOLLOW_ERROR and leaves the ledger unchanged.
C5_SelfFollowRejected ==
  [][ /\ (resp'.op = "followUser" /\ resp'.user # NoUser /\ resp'.user.id = resp'.arg)
           => /\ resp'.status = 400
              /\ resp'.code = "SELF_FOLLOW_ERROR"
              /\ follows' = follows
      /\ (resp'.op = "unfollowUser" /\ resp'.user # NoUser /\ resp'.user.id = resp'.arg)
           => /\ resp'.status = 400
              /\ resp'.code = "SELF_UNFOLLOW_ERROR"
              /\ follows' = follows
    ]_vars

\* the admin has just tried to unfollow itself
C5_Witness ==
  /\ resp.op = "unfollowUser"
  /\ resp.user.id = "u1"
  /\ resp.arg = "u1"
  /\ resp.code = "SELF_UNFOLLOW_ERROR"

\* C6: a follow request that directly follows a successful follow of the
\* same target by the same caller is answered 400 ALREADY_FOLLOWING and
\* leaves the ledger unchanged.
C6_SecondFollowRejected ==
  [][ (/\ resp.op = "followUser" /\ resp.status = 201
       /\ resp'.op = "followUser"
       /\ resp'.hdr = resp.hdr /\ resp'.arg = resp.arg)
        => /\ resp'.status = 400
           /\ resp'.code = "ALREADY_FOLLOWING"
           /\ follows' = follows
    ]_vars

\* a follow was refused as ALREADY_FOLLOWING because of an edge that an
\* earlier follow request appended
C6_Witness ==
  /\ resp.op = "followUser"
  /\ resp.code = "ALREADY_FOLLOWING"
  /\ \E i \in (Len(SeedFollows) + 1)..Len(follows) :
       /\ follows[i].follower = resp.user.id
       /\ follows[i].following = resp.arg
       /\ ~follows[i].isDeleted

\* C7: no read operation returns or counts a soft-deleted post or edge.
C7_ReadsHideDeleted ==
  /\ (resp.op = "getAllPosts" /\ resp.status = 200)
       => \A k \in 1..Len(resp.body.posts) : ~posts[resp.body.posts[k].row].isDeleted
  /\ (resp.op = "getPostById" /\ resp.status = 200)
       => ~posts[resp.body.post.row].isDeleted
  /\ (resp.op = "getFollowers" /\ resp.status = 200)
       => \A k \in 1..Len(resp.body.followers) :
            ~follows[resp.body.followers[k].row].isDeleted
  /\ (resp.op = "getFollowing" /\ resp.status = 200)
       => \A k \in 1..Len(resp.body.following) :
            ~follows[resp.body.following[k].row].isDeleted
  /\ (resp.op = "checkFollowStatus" /\ resp.status = 200)
       => (resp.body.isFollowing <=> ActiveEdge(resp.user.id, resp.arg))
  /\ (resp.op = "getFollowStats" /\ resp.status = 200)
       => /\ resp.body.followersCount =
               Cardinality({i \in 1..Len(follows) :
                              follows[i].following = resp.arg /\ ~follows[i].isDeleted})
          /\ resp.body.followingCount =
               Cardinality({i \in 1..Len(follows) :
                              follows[i].follower = resp.arg /\ ~follows[i].isDeleted})
  /\ resp.op = "feed"
       => \A k \in 1..Len(resp.body) :
            /\ ~posts[resp.body[k].row].isDeleted
            /\ ~follows[resp.body[k].edge].isDeleted

\* C8: every step keeps every post row and every edge row in place, and a
\* row whose isDeleted is true keeps it true.
C8_RowsPermanent ==
  [][ /\ Len(posts') >= Len(posts)
      /\ \A i \in 1..Len(posts) :
           /\ posts'[i].id = posts[i].id
           /\ posts[i].isDeleted => posts'[i].isDeleted
      /\ Len(follows') >= Len(follows)
      /\ \A i \in 1..Len(follows) :
           /\ follows'[i].id = follows[i].id
           /\ follows[i].isDeleted => follows'[i].isDeleted
    ]_vars

\* the pair of a soft-deleted edge has just been followed again, and the
\* soft-deleted row is still there, still deleted
C8_Witness ==
  /\ resp.op = "followUser"
  /\ resp.status = 201
  /\ \E i \in 1..Len(follows) :
       /\ follows[i].follower = resp.user.id
       /\ follows[i].following = resp.arg
       /\ follows[i].isDeleted

\* the accounts the viewer actively follows
Followed(viewer) ==
  {follows[i].following :
     i \in {j \in 1..Len(follows) : follows[j].follower = viewer /\ ~follows[j].isDeleted}}

\* C9: the feed of a viewer has at most 10 entries, each by an author the
\* viewer actively follows, in non-increasing order of creation time.
C9_FeedBoundedFollowedSorted ==
  resp.op = "feed"
    => /\ Len(resp.body) <= 10
       /\ \A k \in 1..Len(resp.body) :
            posts[resp.body[k].row].author \in Followed(resp.arg)
       /\ \A k \in 1..(Len(resp.body) - 1) :
            resp.body[k].created >= resp.body[k + 1].created

\* C10: the feed holds no post of an author the viewer has no active edge
\* to, and no soft-deleted post.
C10_FeedFromActiveRows ==
  resp.op = "feed"
    => \A k \in 1..Len(resp.body) :
         /\ ActiveEdge(resp.arg, posts[resp.body[k].row].author)
         /\ ~posts[resp.body[k].row].isDeleted

\* token was signed by generateToken for caller c at clock reading AuthClock(k0)
\* and is within its 24h lifetime at clock reading t
FreshFor(token, c, k0, t) ==
  /\ token = generateToken(SeedUsers[c], AuthClock(k0))
  /\ AuthClock(k0) <= t
  /\ t < AuthClock(k0) + TokenTtl * 1000

\* ... and is past its lifetime at clock reading t
ExpiredFor(token, c, k0, t) ==
  /\ token = generateToken(SeedUsers[c], AuthClock(k0))
  /\ t >= AuthClock(k0) + TokenTtl * 1000

Fresh(token, t) == \E c \in Callers, k0 \in 0..MaxAuthTicks : FreshFor(token, c, k0, t)

WellFormed(hdr) == Len(hdr) = 2 /\ hdr[1] = "Bearer"

Principal(c) == [id |-> SeedUsers[c].id, role |-> SeedUsers[c].role,
                 name |-> SeedUsers[c].name]

\* C11: authorize(R) with R non-empty, on a validly signed unexpired token
\* whose role r is not in R, answers 403 with requiredRoles = R and
\* userRole = r, attaches no principal and does not call the next handler.
C11_RoleDenied ==
  resp.op = "authorize"
    => \A c \in Callers, k0 \in 0..MaxAuthTicks :
         (/\ WellFormed(resp.hdr)
          /\ FreshFor(resp.hdr[2], c, k0, resp.at)
          /\ Len(resp.arg) > 0
          /\ ~Includes(resp.arg, SeedUsers[c].role))
           => /\ resp.status = 403
              /\ resp.body.requiredRoles = resp.arg
              /\ resp.body.userRole = SeedUsers[c].role
              /\ resp.user = NoUser
              /\ resp.nextCalls = 0

\* a token of the user, no longer new but unexpired, was refused on an
\* admin-only route
C11_Witness ==
  /\ resp.op = "authorize"
  /\ resp.arg = <<"admin">>
  /\ WellFormed(resp.hdr)
  /\ FreshFor(resp.hdr[2], 2, 0, resp.at)
  /\ resp.at > StartClock
  /\ resp.status = 403

\* C12: authorize extracts the header, then verifies the token, then checks
\* the role, and stops at the first step that fails: a missing or malformed
\* header gives 401 with no token verified, an invalid or expired token
\* gives 401 with no role check, and the next handler runs, with the
\* principal {id, role, name} attached, only when all three steps passed.
C12_AuthorizeOrder ==
  resp.op = "authorize"
    => /\ ~WellFormed(resp.hdr)
            => /\ resp.status = 401
               /\ resp.steps = <<"extract">>
               /\ resp.nextCalls = 0
               /\ resp.user = NoUser
       /\ (WellFormed(resp.hdr) /\ ~Fresh(resp.hdr[2], resp.at))
            => /\ resp.status = 401
               /\ resp.steps = <<"extract", "verify">>
               /\ resp.nextCalls = 0
               /\ resp.user = NoUser
       /\ (resp.nextCalls # 0 \/ resp.user # NoUser)
            => /\ resp.nextCalls = 1
               /\ resp.steps = <<"extract", "verify", "role">>
               /\ WellFormed(resp.hdr)
               /\ \E c \in Callers, k0 \in 0..MaxAuthTicks :
                    /\ FreshFor(resp.hdr[2], c, k0, resp.at)
                    /\ resp.user = Principal(c)
                    /\ (Len(resp.arg) = 0 \/ Includes(resp.arg, SeedUsers[c].role))

\* an expired token of the user was refused on an admin-only route at the
\* verification step, before any role check
C12_Witness ==
  /\ resp.op = "authorize"
  /\ resp.arg = <<"admin">>
  /\ WellFormed(resp.hdr)
  /\ \E k0 \in 0..MaxAuthTicks : ExpiredFor(resp.hdr[2], 2, k0, resp.at)
  /\ resp.status = 401
  /\ resp.steps = <<"extract", "verify">>

\* C13: a token issued for an account and verified before its expiry gives
\* claims with that account's id, role and name; verified after its expiry
\* it fails as expired; with an altered signature it fails as invalid; and
\* the expired outcome differs from the invalid outcome.
C13_TokenRoundTrip ==
  /\ resp.op = "verifyToken"
       => \A c \in Callers, k0 \in 0..MaxAuthTicks :
            /\ FreshFor(resp.arg, c, k0, resp.at)
                 => /\ resp.body.ok
                    /\ resp.body.decoded.id = SeedUsers[c].id
                    /\ resp.body.decoded.role = SeedUsers[c].role
                    /\ resp.body.decoded.name = SeedUsers[c].name
            /\ ExpiredFor(resp.arg, c, k0, resp.at)
                 => ~resp.body.ok /\ resp.body.message = "Token expired"
            /\ (/\ resp.arg = Tamper(generateToken(SeedUsers[c], AuthClock(k0)))
                /\ AuthClock(k0) <= resp.at)
                 => ~resp.body.ok /\ resp.body.message = "Invalid token"
  /\ \A a, b \in AuthTokens :
       (/\ \E c \in Callers, k0 \in 0..MaxAuthTicks : ExpiredFor(a, c, k0, now)
        /\ b.form # "jwt" \/ b.sig # "ok")
         => verifyToken(a, now).message # verifyToken(b, now).message

\* a token was verified after its expiry
C13_Witness ==
  /\ resp.op = "verifyToken"
  /\ \E c \in Callers, k0 \in 0..MaxAuthTicks : ExpiredFor(resp.arg, c, k0, resp.at)
  /\ ~resp.body.ok

\* C14: optionalAuth, whatever the Authorization header, calls the next
\* handler exactly once and sends no response itself, and attaches a
\* principal exactly when the header carries a valid token.
C14_OptionalAuthNeverBlocks ==
  resp.op = "optionalAuth"
    => /\ resp.nextCalls = 1
       /\ ~resp.sent
       /\ resp.user # NoUser <=> (WellFormed(resp.hdr) /\ Fresh(resp.hdr[2], resp.at))
       /\ resp.user # NoUser
            => \E c \in Callers, k0 \in 0..MaxAuthTicks :
                 FreshFor(resp.hdr[2], c, k0, resp.at) /\ resp.user = Principal(c)

\* a request with an expired token went through optionalAuth without a
\* principal
C14_Witness ==
  /\ resp.op = "optionalAuth"
  /\ WellFormed(resp.hdr)
  /\ \E c \in Callers, k0 \in 0..MaxAuthTicks : ExpiredFor(resp.hdr[2], c, k0, resp.at)
  /\ resp.nextCalls = 1
  /\ resp.user = NoUser

\* the rows a post list with author filter a may show
Matching(a) ==
  {i \in 1..Len(posts) : ~posts[i].isDeleted /\ (a = "" \/ posts[i].author = a)}

\* row i comes strictly before row j in the order asked for
Precedes(i, j, sortOrder) ==
  IF sortOrder = "asc" THEN posts[i].created < posts[j].created
  ELSE posts[i].created > posts[j].created

\* C15: a post list request with page < 1 or limit < 1 is answered 400
\* INVALID_PAGINATION, whatever the author filter and the sort order, and
\* carries no post data.
C15_InvalidPagination ==
  (resp.op = "getAllPosts" /\ (resp.arg[1] < 1 \/ resp.arg[2] < 1))
    => /\ resp.status = 400
       /\ resp.code = "INVALID_PAGINATION"
       /\ resp.body = <<>>

\* a list request with a valid page, limit 0, an author filter and
\* ascending order was refused
C15_Witness ==
  /\ resp.op = "getAllPosts"
  /\ resp.arg = <<1, 0, "u2", "asc">>
  /\ resp.status = 400

\* C16: a valid list request with page p and limit l = min(limit, 50) returns
\* exactly the elements at positions (p-1)*l .. p*l of the filtered, sorted
\* list, with total = number of matching non-deleted posts,
\* totalPages = ceil(total / l), hasNext = (p < totalPages), hasPrev = (p > 1).
C16_PageWindow ==
  (resp.op = "getAllPosts" /\ resp.arg[1] >= 1 /\ resp.arg[2] >= 1)
    => LET p == resp.arg[1]
           l == Min(resp.arg[2], 50)
           M == Matching(resp.arg[3])
           total == Cardinality(M)
           got == resp.body.posts
           rest == total - (p - 1) * l
       IN /\ resp.status = 200
          /\ Len(got) = (IF rest < 0 THEN 0 ELSE Min(l, rest))
          /\ \A k \in 1..Len(got) :
               LET i == got[k].row
                   before == Cardinality({j \in M : Precedes(j, i, resp.arg[4])})
                   level == Cardinality({j \in M : posts[j].created = posts[i].created})
               IN /\ i \in M
                  /\ got[k].id = posts[i].id
                  /\ got[k].author = posts[i].author
                  /\ got[k].content = posts[i].content
                  /\ got[k].created = posts[i].created
                  /\ before < (p - 1) * l + k
                  /\ (p - 1) * l + k <= before + level
          /\ \A k1, k2 \in 1..Len(got) : k1 # k2 => got[k1].row # got[k2].row
          /\ resp.body.totalPosts = total
          /\ resp.body.postsPerPage = l
          /\ resp.body.totalPages * l >= total
          /\ (resp.body.totalPages - 1) * l < total
          /\ resp.body.hasNextPage = (p < resp.body.totalPages)
          /\ resp.body.hasPrevPage = (p > 1)

\* a full middle page, with a soft-deleted post left out of the count
C16_Witness ==
  /\ resp.op = "getAllPosts"
  /\ resp.status = 200
  /\ resp.arg[1] = 2
  /\ Len(resp.body.posts) = 10
  /\ resp.body.hasNextPage
  /\ resp.body.hasPrevPage
  /\ resp.body.totalPosts < Len(posts)

\* C17: a post list filtered by author a holds only posts of author a, and
\* the posts are in non-increasing order of creation time for sortOrder desc
\* or absent, non-decreasing for asc.
C17_FilterAndOrder ==
  (resp.op = "getAllPosts" /\ resp.status = 200)
    => LET got == resp.body.posts IN
       /\ resp.arg[3] # ""
            => \A k \in 1..Len(got) :
                 got[k].author = resp.arg[3] /\ posts[got[k].row].author = resp.arg[3]
       /\ resp.arg[4] \in {"desc", "undefined"}
            => \A k \in 1..(Len(got) - 1) : got[k].created >= got[k + 1].created
       /\ resp.arg[4] = "asc"
            => \A k \in 1..(Len(got) - 1) : got[k].created <= got[k + 1].created

\* a list of several posts of one author, no sortOrder given, while posts
\* of other authors are visible
C17_Witness ==
  /\ resp.op = "getAllPosts"
  /\ resp.status = 200
  /\ resp.arg[3] = "u2"
  /\ resp.arg[4] = "undefined"
  /\ Len(resp.body.posts) >= 2
  /\ resp.body.posts[1].created > resp.body.posts[2].created
  /\ \E i \in 1..Len(posts) : ~posts[i].isDeleted /\ posts[i].author # "u2"

\* C18: every post stored by create has trimmed content of 1 to 1000
\* characters; a create whose content is empty or only whitespace, or longer
\* than 1000 characters after trimming, is rejected and stores nothing.
C18_StoredContentValid ==
  /\ \A i \in (NumSeedPosts + 1)..Len(posts) :
       /\ posts[i].content = Trim(posts[i].content)
       /\ Len(posts[i].content) >= 1
       /\ Len(posts[i].content) <= MaxContentLen
  /\ (/\ resp.op = "createPost"
      /\ resp.user # NoUser
      /\ Trim(resp.arg) = <<>> \/ Len(Trim(resp.arg)) > MaxContentLen)
       => resp.status = 400

\* C19: all posts have pairwise distinct ids, also when several create
\* requests are handled at the same clock reading.
C19_DistinctIds ==
  \A i, j \in 1..Len(posts) : i # j => posts[i].id # posts[j].id

\* C20: a request answered 400, 401, 403 or 404 leaves the post collection
\* and the follow-edge collection as they were before it.
C20_FailureChangesNothing ==
  [][ resp'.status \in {400, 401, 403, 404}
        => posts' = posts /\ follows' = follows
    ]_vars

\* a request was refused after writes of both kinds had succeeded
C20_Witness ==
  /\ resp.status \in {400, 401, 403, 404}
  /\ Len(follows) > Len(SeedFollows) \/ \E i \in 1..Len(follows) : follows[i].isDeleted
  /\ Len(posts) > NumSeedPosts \/ \E i \in 1..Len(posts) : posts[i].isDeleted

(***************************************************************************)
(* Claims C21..C30.                                                        *)
(***************************************************************************)
\* C21: of two unfollow requests by the same caller for the same active
\* edge, or two admin deletes of the same visible post, served one right
\* after the other (a handler never yields, so every interleaving is one of
\* the two orders), exactly one succeeds: the second is answered 400
\* NOT_FOLLOWING, respectively 404 POST_NOT_FOUND, and writes nothing, so
\* the row is soft-deleted by the first request alone.
C21_OneOfTwoSucceeds ==
  [][ /\ (/\ resp.op = "unfollowUser" /\ resp.status = 200
          /\ resp'.op = "unfollowUser"
          /\ resp'.hdr = resp.hdr /\ resp'.arg = resp.arg)
           => /\ resp'.status = 400
              /\ resp'.code = "NOT_FOLLOWING"
              /\ follows' = follows
      /\ (/\ resp.op = "deletePost" /\ resp.status = 200
          /\ resp'.op = "deletePost" /\ resp'.user.role = "admin"
          /\ resp'.arg = resp.arg)
           => /\ resp'.status = 404
              /\ resp'.code = "POST_NOT_FOUND"
              /\ \A i \in 1..Len(posts) : posts'[i] = posts[i]
              /\ Cardinality({i \in 1..Len(posts') :
                                posts'[i].id = resp'.arg /\ posts'[i].isDeleted}) = 1
    ]_vars

\* the account store holds a record of userId whose isActive flag is set
ActiveAccount(userId) ==
  \E i \in 1..Len(users) : users[i].id = userId /\ users[i].isActive

InStore(userId) == \E i \in 1..Len(users) : users[i].id = userId

\* C23: follow and unfollow check the self case first, then the target, then
\* the edge: an authenticated request naming the caller is answered 400
\* SELF_FOLLOW_ERROR / SELF_UNFOLLOW_ERROR also when the caller's account is
\* not in the store, and one naming another id that is not in the store is
\* answered 404 USER_NOT_FOUND whether or not an active edge leads there.
C23_CheckOrder ==
  [][ (resp'.op \in {"followUser", "unfollowUser"} /\ resp'.user # NoUser)
        => /\ resp'.user.id = resp'.arg
                => /\ resp'.status = 400
                   /\ resp'.code = IF resp'.op = "followUser"
                                   THEN "SELF_FOLLOW_ERROR"
                                   ELSE "SELF_UNFOLLOW_ERROR"
           /\ (resp'.user.id # resp'.arg /\ ~InStore(resp'.arg))
                => /\ resp'.status = 404
                   /\ resp'.code = "USER_NOT_FOUND"
    ]_vars

\* u1 asked to follow u3 while holding an active edge to u3, whose record
\* is gone from the store, and was answered 404
C23_Witness ==
  /\ resp.op = "followUser"
  /\ resp.user.id = "u1" /\ resp.arg = "u3"
  /\ ~InStore("u3")
  /\ ActiveEdge("u1", "u3")
  /\ resp.status = 404

\* u3, whose record is gone from the store, asked to unfollow itself and
\* was answered 400
C23_SelfWitness ==
  /\ resp.op = "unfollowUser"
  /\ resp.user.id = "u3" /\ resp.arg = "u3"
  /\ ~InStore("u3")
  /\ resp.status = 400

\* C24: a successful follow of a pair that already has a soft-deleted row
\* appends one row, whose id differs from the id of every row already in
\* the ledger, and leaves every earlier row, the soft-deleted one included,
\* exactly as it was (same id, created, isDeleted and updatedAt).
C24_RefollowAppends ==
  [][ (/\ resp'.op = "followUser" /\ resp'.status = 201
       /\ \E i \in 1..Len(follows) :
            /\ follows[i].follower = resp'.user.id
            /\ follows[i].following = resp'.arg
            /\ follows[i].isDeleted)
        => /\ Len(follows') = Len(follows) + 1
           /\ \A i \in 1..Len(follows) : follows'[i] = follows[i]
           /\ \A i \in 1..Len(follows) : follows[i].id # follows'[Len(follows')].id
           /\ follows'[Len(follows')].id = resp'.body.id
           /\ ~follows'[Len(follows')].isDeleted
    ]_vars

\* u2 followed u3, unfollowed u3 and followed u3 again: the ledger holds the
\* soft-deleted row of the first follow and the active row of the second
C24_Witness ==
  /\ resp.op = "followUser" /\ resp.status = 201
  /\ resp.user.id = "u2" /\ resp.arg = "u3"
  /\ \E i, j \in (Len(SeedFollows) + 1)..Len(follows) :
       /\ i < j
       /\ follows[i].follower = "u2" /\ follows[i].following = "u3"
       /\ follows[i].isDeleted
       /\ follows[j].follower = "u2" /\ follows[j].following = "u3"
       /\ ~follows[j].isDeleted

C26_TiesByIdDescending ==
  resp.op = "feed" =>
    \A k, l \in 1..Len(resp.body) :
      (k < l /\ resp.body[k].created = resp.body[l].created)
        => resp.body[k].id[2] > resp.body[l].id[2]

\* C28: the optimized query never outlives its deadline: the function is
\* not still waiting for the store more than Timeout milliseconds after it
\* started, a call that lasted longer than Timeout has ended by throwing
\* 'Request timeout', and no call that lasted longer has returned posts.
C28_DeadlineEndsQuery ==
  resp.op = "getSortedPosts_OPTIMIZED" =>
    /\ resp.pc = "awaiting" => now - resp.start <= resp.timeout
    /\ (resp.pc = "thrown" /\ resp.duration > resp.timeout)
         => resp.error = "Request timeout"
    /\ resp.pc = "returned" => resp.duration <= resp.timeout

C30_OneRowPerWrite ==
  [][ /\ users' = users
      /\ resp'.op \in {"createPost", "deletePost"} => follows' = follows
      /\ resp'.op \in {"followUser", "unfollowUser"} => posts' = posts
      /\ (resp'.op = "createPost" /\ resp'.status = 201)
           => /\ Len(posts') = Len(posts) + 1
              /\ \A i \in 1..Len(posts) : posts'[i] = posts[i]
      /\ (resp'.op = "followUser" /\ resp'.status = 201)
           => /\ Len(follows') = Len(follows) + 1
              /\ \A i \in 1..Len(follows) : follows'[i] = follows[i]
      /\ (resp'.op = "deletePost" /\ resp'.status = 200)
           => \E i \in 1..Len(posts) :
                /\ ~posts[i].isDeleted
                /\ posts' = [posts EXCEPT ![i].isDeleted = TRUE,
                                          ![i].updatedAt = posts'[i].updatedAt]
      /\ (resp'.op = "unfollowUser" /\ resp'.status = 200)
           => \E i \in 1..Len(follows) :
                /\ ~follows[i].isDeleted
                /\ follows' = [follows EXCEPT ![i].isDeleted = TRUE,
                                              ![i].updatedAt = follows'[i].updatedAt]
    ]_vars

\* the admin deleted a post after an edge had been soft-deleted: the stores
\* hold a hidden post and a hidden edge
C30_Witness ==
  /\ resp.op = "deletePost" /\ resp.status = 200
  /\ \E i \in 1..Len(posts) : posts[i].isDeleted /\ posts[i].content # <<>>
  /\ \E i \in 1..Len(follows) : follows[i].isDeleted

=============================================================================
